---- MODULE Spec2Model ----
(***************************************************************************)
(* A model of csv-chomp: the CSV-to-relational normalisation pipeline.     *)
(*                                                                         *)
(* The repository holds two programs with the same pipeline:               *)
(*   src/index.js          (author ids from randomUUID, raw book rows)     *)
(*   src/unnamed/part_000  (numeric author ids, typed book rows, seedDB)   *)
(* The variable impl says which of the two is running.                     *)
(*                                                                         *)
(* JavaScript strings are sequences of one-character strings, so that      *)
(* split, replace and replaceAll are computed character by character.      *)
(* JavaScript values are records of one shape (Str, Dec, NaN, Undefined),   *)
(* so that a string, a number, NaN and undefined can be compared.          *)
(***************************************************************************)
EXTENDS Integers, Sequences, FiniteSets, TLC

VARIABLES
    impl,           \* "index" (src/index.js) or "part" (src/unnamed/part_000)
    pc,             \* position of main()
    parser,         \* records the csv parser has still to emit
    books,          \* processCSV: const books = new Array()
    csvData,        \* main: const csvData = await processCSV(file)
    idx,            \* separateData: position of "for (const book of data)"
    booksList,      \* separateData: booksList
    authorsList,    \* separateData: authorsList
    junctionsList,  \* separateData: junctionsList
    queries,        \* seedDB: the rows whose INSERT statement was built
    error,          \* the exception that ended the program, or NoError
    run,            \* number of the separateData call in progress
    firstRun,       \* what the first separateData call returned
    arg,            \* argument of the function under study (function specs)
    res             \* its successive results

vars == <<impl, pc, parser, books, csvData, idx, booksList, authorsList,
          junctionsList, queries, error, run, firstRun, arg, res>>

pipelineVars == <<impl, pc, parser, books, csvData, idx, booksList,
                  authorsList, junctionsList, queries, error, run, firstRun>>

-----------------------------------------------------------------------------
(* Bounds of the model. *)

\* Number of records in the input file.
MaxRecords == 2

\* Length of the strings cleanISBN is studied on.
MaxLen == 3

\* Number of slash-separated components of the dates studied.
MaxComponents == 3

-----------------------------------------------------------------------------
(* JavaScript values. *)

Str(chars) == [t |-> "string", s |-> chars, n |-> 0, d |-> 0, nan |-> FALSE]

\* The number n / 10^d.
Dec(n, d) == [t |-> "number", s |-> <<>>, n |-> n, d |-> d, nan |-> FALSE]

Num(n) == Dec(n, 0)

NaN == [t |-> "number", s |-> <<>>, n |-> 0, d |-> 0, nan |-> TRUE]

Undefined == [t |-> "undefined", s |-> <<>>, n |-> 0, d |-> 0, nan |-> FALSE]

\* typeof v
typeof(v) == v.t

\* An exception: TypeError, raised by a property read on undefined.
TypeError(where) == [name |-> "TypeError", at |-> where]

NoError == [name |-> "none", at |-> "none"]

\* record[i] of a JavaScript array (0-based): undefined past the end.
At(arr, i) == IF i + 1 \in 1..Len(arr) THEN arr[i + 1] ELSE Undefined

Digits == {"0", "1", "2", "3", "4", "5", "6", "7", "8", "9"}

DigitValue(c) ==
    CASE c = "0" -> 0 [] c = "1" -> 1 [] c = "2" -> 2 [] c = "3" -> 3
      [] c = "4" -> 4 [] c = "5" -> 5 [] c = "6" -> 6 [] c = "7" -> 7
      [] c = "8" -> 8 [] c = "9" -> 9

-----------------------------------------------------------------------------
(* String.prototype methods. *)

\* Index of the first occurrence of the character c in s, 0 when absent.
IndexOf(s, c) ==
    IF \E i \in 1..Len(s) : s[i] = c
    THEN CHOOSE i \in 1..Len(s) : s[i] = c /\ \A j \in 1..(i - 1) : s[j] # c
    ELSE 0

\* s.replace(c, ""): only the first occurrence of the pattern is replaced.
replace(s, c) ==
    LET i == IndexOf(s, c)
    IN  IF i = 0 THEN s ELSE SubSeq(s, 1, i - 1) \o SubSeq(s, i + 1, Len(s))

\* s.replaceAll(c, ""): every occurrence is replaced.
RECURSIVE replaceAll(_, _)
replaceAll(s, c) ==
    IF s = <<>> THEN <<>>
    ELSE IF Head(s) = c THEN replaceAll(Tail(s), c)
    ELSE <<Head(s)>> \o replaceAll(Tail(s), c)

\* s.split(c): the pieces between the occurrences of c, at least one piece.
RECURSIVE split(_, _)
split(s, c) ==
    LET i == IndexOf(s, c)
    IN  IF i = 0 THEN <<s>>
        ELSE <<SubSeq(s, 1, i - 1)>> \o split(SubSeq(s, i + 1, Len(s)), c)

-----------------------------------------------------------------------------
(* cleanISBN and iterAuthors: the field helpers of processCSV. *)

\* cleanISBN with replace in place of replaceAll: one quote is removed.
cleanISBNFirstQuoteOnly(isbn) == replace(replace(isbn, "="), "\"")

\* cleanISBN with replaceAll in place of replace: every "=" is removed.
cleanISBNEveryEquals(isbn) == replaceAll(replaceAll(isbn, "="), "\"")

\* cleanISBN(isbn) on a string:
\*   isbn.replace("=", "").replaceAll(`"`, "")
cleanISBN(isbn) == replaceAll(replace(isbn, "="), "\"")

\* cleanISBN(v) on any value: isbn.replace throws when isbn is undefined.
cleanISBNCall(v) ==
    IF typeof(v) = "string"
    THEN [threw |-> FALSE, value |-> Str(cleanISBN(v.s))]
    ELSE [threw |-> TRUE, value |-> Undefined]

\* iterAuthors(v): authors.split("/"), which throws when authors is undefined.
iterAuthors(v) ==
    IF typeof(v) = "string"
    THEN [threw |-> FALSE, value |-> [k \in 1..Len(split(v.s, "/")) |-> Str(split(v.s, "/")[k])]]
    ELSE [threw |-> TRUE, value |-> <<>>]

-----------------------------------------------------------------------------
(* The study of cleanISBN as a function: every string over IsbnAlphabet of  *)
(* at most MaxLen characters is cleaned, and the result cleaned again.      *)

IsbnAlphabet == {"1", "2", "=", "\""}

BoundedSeq(S, n) == UNION {[1..k -> S] : k \in 0..n}

\* The pipeline at rest while a function is studied on its own.
InitPipelineIdle(study) ==
    /\ impl = "part"
    /\ pc = study
    /\ parser = <<>>
    /\ books = <<>>
    /\ csvData = <<>>
    /\ idx = 0
    /\ booksList = <<>>
    /\ authorsList = <<>>
    /\ junctionsList = <<>>
    /\ queries = <<>>
    /\ error = NoError
    /\ run = 0
    /\ firstRun = <<>>

\* The malformed field of the spreadsheet export, ="0439023483".
ExportedISBN == <<"=", "\"", "0", "4", "3", "9", "0", "2", "3", "4", "8", "3", "\"">>

InitISBN ==
    /\ InitPipelineIdle("cleanISBN")
    /\ arg \in BoundedSeq(IsbnAlphabet, MaxLen) \cup {ExportedISBN}
    /\ res = <<>>

\* const clean = cleanISBN(x), then cleanISBN(clean).
CleanOnce ==
    /\ pc = "cleanISBN"
    /\ Len(res) = 0
    /\ res' = <<cleanISBN(arg)>>
    /\ UNCHANGED <<arg, pipelineVars>>

CleanAgain ==
    /\ pc = "cleanISBN"
    /\ Len(res) = 1
    /\ res' = Append(res, cleanISBN(res[1]))
    /\ UNCHANGED <<arg, pipelineVars>>

NextISBN == CleanOnce \/ CleanAgain

SpecISBN == InitISBN /\ [][NextISBN]_vars

-----------------------------------------------------------------------------
(* Numeric coercion and the Date of formatedBook (src/unnamed/part_000).    *)
(* The strings studied hold digits, ".", "/" and letters: no sign, blank,   *)
(* exponent or 0x prefix, which the conversions would treat specially.      *)

IsDigits(s) == \A i \in 1..Len(s) : s[i] \in Digits

\* The value of a string of digits ("" is 0).
RECURSIVE DigitsValue(_)
DigitsValue(s) ==
    IF s = <<>> THEN 0
    ELSE 10 * DigitsValue(SubSeq(s, 1, Len(s) - 1)) + DigitValue(s[Len(s)])

\* The longest prefix of s made of digits.
RECURSIVE DigitPrefix(_)
DigitPrefix(s) ==
    IF s # <<>> /\ Head(s) \in Digits
    THEN <<Head(s)>> \o DigitPrefix(Tail(s))
    ELSE <<>>

\* ToNumber(v), the coercion "new Date(...)" and "-" apply to an operand:
\* undefined is NaN, "" is 0, a string of digits is its value, else NaN.
ToNumber(v) ==
    IF typeof(v) = "number" THEN v
    ELSE IF typeof(v) = "string" /\ IsDigits(v.s) THEN Num(DigitsValue(v.s))
    ELSE NaN

\* a - b on numbers.
Minus(a, b) ==
    IF ToNumber(a).nan \/ ToNumber(b).nan THEN NaN
    ELSE Num(ToNumber(a).n - ToNumber(b).n)

\* Number.parseInt(v): the leading digits of the string, NaN when none.
parseInt(v) ==
    IF typeof(v) = "string" /\ DigitPrefix(v.s) # <<>>
    THEN Num(DigitsValue(DigitPrefix(v.s)))
    ELSE NaN

\* Number.parseFloat(v): leading digits, then "." and digits; NaN when
\* neither part holds a digit.
parseFloat(v) ==
    IF typeof(v) # "string" THEN NaN
    ELSE LET int  == DigitPrefix(v.s)
             rest == SubSeq(v.s, Len(int) + 1, Len(v.s))
             frac == IF rest # <<>> /\ Head(rest) = "."
                     THEN DigitPrefix(Tail(rest)) ELSE <<>>
         IN  IF int = <<>> /\ frac = <<>> THEN NaN
             ELSE Dec(DigitsValue(int \o frac), Len(frac))

IsLeapYear(y) == (y % 4 = 0 /\ y % 100 # 0) \/ y % 400 = 0

\* Days of month m (1..12) of year y.
DaysInMonth(y, m) ==
    IF m = 2 THEN (IF IsLeapYear(y) THEN 29 ELSE 28)
    ELSE IF m \in {4, 6, 9, 11} THEN 30 ELSE 31

\* The calendar date that is day d of month m of year y, where d may lie
\* outside the month: the days roll over into the months around it.
RECURSIVE RollDays(_, _, _)
RollDays(y, m, d) ==
    IF d < 1
    THEN LET py == IF m = 1 THEN y - 1 ELSE y
             pm == IF m = 1 THEN 12 ELSE m - 1
         IN  RollDays(py, pm, d + DaysInMonth(py, pm))
    ELSE IF d > DaysInMonth(y, m)
    THEN RollDays(IF m = 12 THEN y + 1 ELSE y, IF m = 12 THEN 1 ELSE m + 1,
                  d - DaysInMonth(y, m))
    ELSE [valid |-> TRUE, year |-> y, month |-> m, day |-> d]

InvalidDate == [valid |-> FALSE, year |-> 0, month |-> 0, day |-> 0]

\* new Date(year, monthIndex, day): an Invalid Date when an argument is NaN;
\* a year 0..99 is 1900 + year; a month index outside 0..11 carries into the
\* year and a day outside the month carries into the month (MakeDay).
NewDate(year, monthIndex, day) ==
    LET y == ToNumber(year)
        m == ToNumber(monthIndex)
        d == ToNumber(day)
        yr == IF y.n \in 0..99 THEN 1900 + y.n ELSE y.n
    IN  IF y.nan \/ m.nan \/ d.nan THEN InvalidDate
        ELSE RollDays(yr + (m.n \div 12), (m.n % 12) + 1, d.n)

\* The decimal digits of a natural number.
RECURSIVE NatToString(_)
NatToString(n) ==
    LET c == CHOOSE ch \in Digits : DigitValue(ch) = n % 10
    IN  IF n < 10 THEN <<c>> ELSE NatToString(n \div 10) \o <<c>>

\* date.toLocaleDateString(), in the en-US locale: month/day/year.
toLocaleDateString(date) ==
    IF date.valid
    THEN Str(NatToString(date.month) \o <<"/">> \o NatToString(date.day)
             \o <<"/">> \o NatToString(date.year))
    ELSE Str(<<"I", "n", "v", "a", "l", "i", "d", " ", "D", "a", "t", "e">>)

\* The date formatedBook builds from book.published, day/month/year:
\*   const date = book.published.split("/");
\*   const formatDate = new Date(date[2], date[1] - 1, date[0]);
formatDate(published) ==
    LET date == [k \in 1..Len(split(published.s, "/")) |->
                    Str(split(published.s, "/")[k])]
    IN  NewDate(At(date, 2), Minus(At(date, 1), Num(1)), At(date, 0))

\* The published field of formatedBook's result, or the TypeError of
\* book.published.split when the field is undefined.
formatedPublished(published) ==
    IF typeof(published) = "string"
    THEN [threw |-> FALSE, value |-> toLocaleDateString(formatDate(published))]
    ELSE [threw |-> TRUE, value |-> Undefined]

-----------------------------------------------------------------------------
(* The study of the date normalisation as a function: every string of at   *)
(* most MaxComponents components of DateComponents, joined by "/".         *)

DateComponents ==
    { <<>>, <<"x">>, <<"0">>, <<"2">>, <<"4">>, <<"9">>, <<"1", "3">>,
      <<"2", "9">>, <<"3", "1">>, <<"2", "0", "0", "4">>,
      <<"2", "0", "0", "6">> }

RECURSIVE Join(_)
Join(comps) ==
    IF Len(comps) = 1 THEN comps[1]
    ELSE comps[1] \o <<"/">> \o Join(Tail(comps))

InitDate ==
    /\ InitPipelineIdle("formatedBook")
    /\ \E k \in 1..MaxComponents :
          \E comps \in [1..k -> DateComponents] : arg = Join(comps)
    /\ res = <<>>

FormatPublished ==
    /\ pc = "formatedBook"
    /\ Len(res) = 0
    /\ res' = <<formatedPublished(Str(arg))>>
    /\ UNCHANGED <<arg, pipelineVars>>

NextDate == FormatPublished

SpecDate == InitDate /\ [][NextDate]_vars

-----------------------------------------------------------------------------
(* processCSV: the parser's "data" and "end" handlers. *)

\* The book object the "data" handler builds from one record, or the
\* TypeError of iterAuthors / cleanISBN on a field the record does not have.
\* The fields are evaluated in the order of the object literal.
bookOfRecord(record) ==
    LET authors == iterAuthors(At(record, 1))
        isbn    == cleanISBNCall(At(record, 3))
        isbn13  == cleanISBNCall(At(record, 4))
    IN  IF authors.threw \/ isbn.threw \/ isbn13.threw
        THEN [threw |-> TRUE, value |-> Undefined]
        ELSE [threw |-> FALSE,
              value |-> [title           |-> At(record, 0),
                         authors         |-> authors.value,
                         avgRating       |-> At(record, 2),
                         isbn            |-> isbn.value,
                         isbn13          |-> isbn13.value,
                         language        |-> At(record, 5),
                         pages           |-> At(record, 6),
                         ratingCount     |-> At(record, 7),
                         textReviewCount |-> At(record, 8),
                         published       |-> At(record, 9),
                         publisher       |-> At(record, 10)]]

-----------------------------------------------------------------------------
(* separateData and its helpers. *)

\* formatedBook(book) of src/index.js: the ten book fields, copied.
formatedBookIndex(book) ==
    [threw |-> FALSE,
     value |-> [title           |-> book.title,
                avgRating       |-> book.avgRating,
                isbn            |-> book.isbn,
                isbn13          |-> book.isbn13,
                language        |-> book.language,
                pages           |-> book.pages,
                ratingCount     |-> book.ratingCount,
                textReviewCount |-> book.textReviewCount,
                published       |-> book.published,
                publisher       |-> book.publisher]]

\* formatedBook(book) of src/unnamed/part_000: the ten book fields, typed;
\* throws when book.published is undefined.
formatedBook(book) ==
    LET published == formatedPublished(book.published)
    IN  IF published.threw THEN [threw |-> TRUE, value |-> Undefined]
        ELSE [threw |-> FALSE,
              value |-> [title           |-> book.title,
                         avgRating       |-> parseFloat(book.avgRating),
                         isbn            |-> book.isbn,
                         isbn13          |-> parseInt(book.isbn13),
                         language        |-> book.language,
                         pages           |-> parseInt(book.pages),
                         ratingCount     |-> parseInt(book.ratingCount),
                         textReviewCount |-> parseInt(book.textReviewCount),
                         published       |-> published.value,
                         publisher       |-> book.publisher]]

formatedAuthor(author, newAuthorID) ==
    [author_id |-> newAuthorID, name |-> author]

\* formatedJunction with the book key coerced as the Book row's isbn13 is.
formatedJunctionCoerced(author, bookISBN13) ==
    [author_id |-> author, book_id |-> parseInt(bookISBN13)]

\* formatedJunction(author, bookISBN13): author_id is its first argument.
formatedJunction(author, bookISBN13) ==
    [author_id |-> author, book_id |-> bookISBN13]

\* divyAuthors(data, bookISBN13) of src/unnamed/part_000: authorId is a
\* local of the call, 0 at its start; the junction is built from data[j].
divyAuthors(data, bookISBN13) ==
    [authors   |-> [j \in 1..Len(data) |-> formatedAuthor(data[j], Num(j - 1))],
     junctions |-> [j \in 1..Len(data) |-> formatedJunction(data[j], bookISBN13)]]

\* divyAuthors(data, bookISBN13) of src/index.js, where uuids[j] is what the
\* j-th call of randomUUID() returned.
divyAuthorsIndex(data, bookISBN13, uuids) ==
    [authors   |-> [j \in 1..Len(data) |-> [author_id |-> uuids[j], name |-> data[j]]],
     junctions |-> [j \in 1..Len(data) |-> [book_id |-> bookISBN13, author_id |-> uuids[j]]]]

-----------------------------------------------------------------------------
(* seedDB (src/unnamed/part_000). *)

\* The rows seedDB builds an INSERT for: the first row is dropped, and for
\* type "books" a row is skipped when typeof isbn13 is not "number".
seedDB(data, type) ==
    SelectSeq(SubSeq(data, 2, Len(data)),
              LAMBDA row : ~(type = "books" /\ typeof(row.isbn13) # "number"))

-----------------------------------------------------------------------------
(* The input files. *)

\* The authors fields of the input: one author, two authors.
AuthorFields == {<<"A">>, <<"A", "/", "B">>}

\* The isbn13 fields of the input: ="12" and the empty field.
Isbn13Fields == {<<"=", "\"", "1", "2", "\"">>, <<>>}

\* One full record of eleven fields.
FullRecord(authors, isbn13) ==
    << Str(<<"T">>), Str(authors), Str(<<"4", ".", "5">>),
       Str(<<"=", "\"", "7", "\"">>), Str(isbn13), Str(<<"e", "n">>),
       Str(<<"3">>), Str(<<"8">>), Str(<<"x">>),
       Str(<<"4", "/", "9", "/", "2", "0", "0", "6">>), Str(<<"P">>) >>

FullRecords == {FullRecord(a, i) : a \in AuthorFields, i \in Isbn13Fields}

\* The numbers of fields of a record: the parser gives every record of a
\* file the same number of fields.
FieldCounts == {4, 9, 11}

InputFiles ==
    UNION { { [i \in 1..k |-> SubSeq(f[i], 1, n)] : f \in [1..k -> FullRecords] } :
            k \in 1..MaxRecords, n \in FieldCounts }

\* The most author tokens one record holds.
MaxTokens ==
    CHOOSE m \in 1..(MaxLen + 8) :
        /\ \E a \in AuthorFields : Len(split(a, "/")) = m
        /\ \A a \in AuthorFields : Len(split(a, "/")) <= m

\* The values randomUUID() may return: as many as one run may need.
UUIDs == {Str(<<"u">> \o NatToString(k)) : k \in 1..(MaxRecords * MaxTokens)}

-----------------------------------------------------------------------------
(* main(): processCSV, separateData, seedDB. *)

Init ==
    /\ impl \in {"index", "part"}
    /\ pc = "processCSV"
    /\ parser \in InputFiles
    /\ books = <<>>
    /\ csvData = <<>>
    /\ idx = 0
    /\ booksList = <<>>
    /\ authorsList = <<>>
    /\ junctionsList = <<>>
    /\ queries = <<>>
    /\ error = NoError
    /\ run = 0
    /\ firstRun = <<>>
    /\ arg = <<>>
    /\ res = <<>>

\* parser.on("data", (record) => { ... books.push(book) })
ParserData ==
    /\ pc = "processCSV"
    /\ parser # <<>>
    /\ LET book == bookOfRecord(Head(parser))
       IN  IF book.threw
           THEN /\ pc' = "crashed"
                /\ error' = TypeError("processCSV.data")
                /\ UNCHANGED <<parser, books>>
           ELSE /\ books' = Append(books, book.value)
                /\ parser' = Tail(parser)
                /\ UNCHANGED <<pc, error>>
    /\ UNCHANGED <<impl, csvData, idx, booksList, authorsList, junctionsList,
                   queries, run, firstRun, arg, res>>

\* parser.on("end", () => resolve(books)), then main calls separateData.
ParserEnd ==
    /\ pc = "processCSV"
    /\ parser = <<>>
    /\ csvData' = books
    /\ pc' = "separateData"
    /\ run' = 1
    /\ idx' = 0
    /\ UNCHANGED <<impl, parser, books, booksList, authorsList, junctionsList,
                   queries, error, firstRun, arg, res>>

\* One turn of "for (const book of data)" in src/unnamed/part_000.
SeparateStep ==
    /\ pc = "separateData"
    /\ impl = "part"
    /\ idx < Len(csvData)
    /\ LET book    == csvData[idx + 1]
           current == formatedBook(book)
           divided == divyAuthors(book.authors, book.isbn13)
       IN  IF current.threw
           THEN /\ pc' = "crashed"
                /\ error' = TypeError("formatedBook")
                /\ UNCHANGED <<idx, booksList, authorsList, junctionsList>>
           ELSE /\ booksList' = Append(booksList, current.value)
                /\ authorsList' = authorsList \o divided.authors
                /\ junctionsList' = junctionsList \o divided.junctions
                /\ idx' = idx + 1
                /\ UNCHANGED <<pc, error>>
    /\ UNCHANGED <<impl, parser, books, csvData, queries, run, firstRun, arg, res>>

\* One turn of "for (const book of data)" in src/index.js: the book itself
\* is pushed, and every author gets a randomUUID(), which does not repeat.
SeparateStepIndex ==
    /\ pc = "separateData"
    /\ impl = "index"
    /\ idx < Len(csvData)
    /\ LET book    == csvData[idx + 1]
           current == formatedBookIndex(book)
           used    == {authorsList[i].author_id : i \in 1..Len(authorsList)}
       IN  \E uuids \in [1..Len(book.authors) -> UUIDs \ used] :
              /\ \A i, j \in 1..Len(uuids) : i # j => uuids[i] # uuids[j]
              /\ ~current.threw
              /\ LET divided == divyAuthorsIndex(book.authors, book.isbn13, uuids)
                 IN  /\ booksList' = Append(booksList, book)
                     /\ authorsList' = authorsList \o divided.authors
                     /\ junctionsList' = junctionsList \o divided.junctions
    /\ idx' = idx + 1
    /\ UNCHANGED <<impl, pc, parser, books, csvData, queries, error, run,
                   firstRun, arg, res>>

\* return { booksList, authorsList, junctionsList }
SeparateReturn ==
    /\ pc = "separateData"
    /\ idx = Len(csvData)
    /\ pc' = "separated"
    /\ UNCHANGED <<impl, parser, books, csvData, idx, booksList, authorsList,
                   junctionsList, queries, error, run, firstRun, arg, res>>

\* seedDB(booksList, tableType.BOOK, client), then process.exit(0).
SeedDB ==
    /\ pc = "separated"
    /\ impl = "part"
    /\ queries' = seedDB(booksList, "books")
    /\ pc' = "done"
    /\ UNCHANGED <<impl, parser, books, csvData, idx, booksList, authorsList,
                   junctionsList, error, run, firstRun, arg, res>>

\* src/index.js has no seedDB call: process.exit(0).
Exit ==
    /\ pc = "separated"
    /\ impl = "index"
    /\ pc' = "done"
    /\ UNCHANGED <<impl, parser, books, csvData, idx, booksList, authorsList,
                   junctionsList, queries, error, run, firstRun, arg, res>>

Next ==
    \/ ParserData
    \/ ParserEnd
    \/ SeparateStep
    \/ SeparateStepIndex
    \/ SeparateReturn
    \/ SeedDB
    \/ Exit

Spec == Init /\ [][Next]_vars

\* separateData(csvData) called a second time on the same records.
SeparateAgain ==
    /\ pc = "separated"
    /\ run = 1
    /\ firstRun' = <<booksList, authorsList, junctionsList>>
    /\ run' = 2
    /\ pc' = "separateData"
    /\ idx' = 0
    /\ booksList' = <<>>
    /\ authorsList' = <<>>
    /\ junctionsList' = <<>>
    /\ UNCHANGED <<impl, parser, books, csvData, queries, error, arg, res>>

NextTwice ==
    \/ Next
    \/ SeparateAgain

SpecTwice == Init /\ [][NextTwice]_vars

-----------------------------------------------------------------------------
(* Properties of cleanISBN (under SpecISBN). *)

Quote == "\""

\* The number of occurrences of the character c in s.
Count(s, c) == Cardinality({i \in 1..Len(s) : s[i] = c})

\* The characters of s at the positions K, in their order in s.
Pick(s, K) ==
    LET nth(k) == CHOOSE i \in K : Cardinality({j \in K : j < i}) = k - 1
    IN  [k \in 1..Cardinality(K) |-> s[nth(k)]]

\* The positions kept when one leading "=" and every quote are removed.
KeptLeading(s) ==
    {i \in 1..Len(s) : s[i] # Quote /\ ~(i = 1 /\ s[i] = "=")}

\* The positions kept when the first "=" and every quote are removed.
KeptFirst(s) ==
    {i \in 1..Len(s) :
        s[i] # Quote /\ ~(s[i] = "=" /\ \A j \in 1..(i - 1) : s[j] # "=")}

\* C5 as stated: cleanISBN(cleanISBN(x)) = cleanISBN(x) for every string x
\* over digits, "=" and the double quote.
C5_Idempotent ==
    (pc = "cleanISBN" /\ Len(res) = 2) => res[2] = res[1]

\* C5 as amended: cleanISBN(cleanISBN(x)) = cleanISBN(x) for every such x
\* that holds at most one "=".
C5_IdempotentOneEquals ==
    (pc = "cleanISBN" /\ Len(res) = 2 /\ Count(arg, "=") <= 1) => res[2] = res[1]

\* A string with one "=" and a quote was cleaned twice, and the first
\* cleaning changed it.
C5_Witness ==
    /\ pc = "cleanISBN" /\ Len(res) = 2
    /\ Count(arg, "=") = 1 /\ Count(arg, Quote) >= 1
    /\ res[1] # arg /\ res[2] = res[1]

\* C6 as stated: cleanISBN removes an "=" only when it is the first
\* character, removes every double quote, and keeps every other character
\* (an "=" that is not leading included) in order.
C6_LeadingEqualsOnly ==
    (pc = "cleanISBN" /\ Len(res) >= 1) => res[1] = Pick(arg, KeptLeading(arg))

\* C6 as amended: cleanISBN removes the first "=" of the input wherever it
\* stands (and no other "="), removes every double quote, and keeps every
\* other character in order; ="0439023483" becomes 0439023483.
C6_FirstEqualsAnywhere ==
    (pc = "cleanISBN" /\ Len(res) >= 1) =>
        /\ res[1] = Pick(arg, KeptFirst(arg))
        /\ arg = ExportedISBN =>
              res[1] = <<"0", "4", "3", "9", "0", "2", "3", "4", "8", "3">>

\* A string whose first "=" is not its first character, and which holds a
\* second "=", was cleaned: the first "=" is gone, the second stays.
C6_Witness ==
    /\ pc = "cleanISBN" /\ Len(res) >= 1
    /\ Len(arg) >= 1 /\ arg[1] # "=" /\ Count(arg, "=") = 2
    /\ Count(res[1], "=") = 1

-----------------------------------------------------------------------------
(* Properties of the pipeline (under Spec, and SpecTwice for C4). *)

\* The number of author tokens of the first k books of csvData.
RECURSIVE TokensUpTo(_)
TokensUpTo(k) ==
    IF k = 0 THEN 0 ELSE TokensUpTo(k - 1) + Len(csvData[k].authors)

\* The positions, in authorsList and in junctionsList, of the rows of book k.
RowsOf(k) == (TokensUpTo(k - 1) + 1)..TokensUpTo(k)

\* The book whose rows hold position j.
BookOf(j) == CHOOSE k \in 1..Len(csvData) : j \in RowsOf(k)

\* separateData has returned.
Separated == pc \in {"separated", "done"}

\* C1: the k-th author row emitted in one run (0-based) has authorId k: the
\* counter starts at 0 and is not reset between books. Stated of
\* src/unnamed/part_000, whose author ids are numbers.
C1_GlobalAuthorCounter ==
    (Separated /\ impl = "part") =>
        \A k \in 1..Len(authorsList) : authorsList[k].author_id = Num(k - 1)

\* C2: a book has as many junction rows as author rows, and the authorId of
\* each of its junction rows is the authorId of exactly one of its author
\* rows.
C2_JunctionMatchesAuthor ==
    Separated =>
        /\ Len(authorsList) = TokensUpTo(Len(csvData))
        /\ Len(junctionsList) = TokensUpTo(Len(csvData))
        /\ \A k \in 1..Len(csvData) : \A j \in RowsOf(k) :
              Cardinality({i \in RowsOf(k) :
                  authorsList[i].author_id = junctionsList[j].author_id}) = 1

\* A value that is a positive integer, or a string that parses to one.
PositiveInteger(v) ==
    LET x == IF typeof(v) = "string" THEN parseInt(v) ELSE v
    IN  typeof(x) = "number" /\ ~x.nan /\ x.d = 0 /\ x.n > 0

\* C3: a record whose isbn13 does not parse to a positive integer is kept
\* out of the books collection (the booksList separateData returns, and the
\* rows seedDB inserts), while its author and junction rows are emitted.
C3_BadIsbn13Excluded ==
    Separated =>
        /\ \A i \in 1..Len(booksList) : PositiveInteger(booksList[i].isbn13)
        /\ \A i \in 1..Len(queries) : PositiveInteger(queries[i].isbn13)
        /\ Len(authorsList) = TokensUpTo(Len(csvData))
        /\ Len(junctionsList) = TokensUpTo(Len(csvData))

\* C4: separateData run twice on the same records returns the same books,
\* authors and junctions, author ids included.
C4_SameOutputTwice ==
    (run = 2 /\ Separated) =>
        <<booksList, authorsList, junctionsList>> = firstRun

\* C8: cleanISBN of an absent field is the empty string and no error, so
\* the "data" handler never raises, whatever the number of fields.
C8_DataHandlerNeverRaises ==
    ~(pc = "crashed" /\ error.at = "processCSV.data")

\* C9: the book_id of every junction row is the isbn13 string of its record
\* as processCSV left it (cleaned, not coerced), whatever the isbn13 of the
\* Book row has become.
C9_JunctionKeyVerbatim ==
    \A j \in 1..Len(junctionsList) :
        /\ typeof(junctionsList[j].book_id) = "string"
        /\ junctionsList[j].book_id = csvData[BookOf(j)].isbn13

\* separateData of src/unnamed/part_000 has returned for two books, one
\* whose Book row has the integer 12 as isbn13 and one whose Book row has
\* NaN, and each has a junction row.
C9_Witness ==
    /\ Separated /\ impl = "part"
    /\ \E k \in 1..Len(booksList) :
          /\ booksList[k].isbn13 = Num(12)
          /\ \E j \in RowsOf(k) : junctionsList[j].book_id = Str(<<"1", "2">>)
    /\ \E k \in 1..Len(booksList) :
          /\ booksList[k].isbn13 = NaN
          /\ \E j \in RowsOf(k) : junctionsList[j].book_id = Str(<<>>)

\* The ten fields of a Book row.
BookFields ==
    {"title", "avgRating", "isbn", "isbn13", "language", "pages",
     "ratingCount", "textReviewCount", "published", "publisher"}

\* C10: separateData emits one Book row per record, in the order of the
\* records, and a Book row holds the ten book fields and no authors field.
C10_OneStrippedBookPerRecord ==
    Separated =>
        /\ Len(booksList) = Len(csvData)
        /\ \A k \in 1..Len(booksList) :
              /\ DOMAIN booksList[k] = BookFields
              /\ booksList[k].title = csvData[k].title
              /\ booksList[k].isbn = csvData[k].isbn

-----------------------------------------------------------------------------
(* Properties of the date normalisation (under SpecDate). *)

\* A published field that is not a day/month/year date: fewer than three
\* components, a component that is not a number, a month outside 1..12 or
\* a day outside the month.
Malformed(published) ==
    LET c == split(published, "/")
        numeric(x) == x # <<>> /\ IsDigits(x)
    IN  \/ Len(c) < 3
        \/ \E k \in 1..3 : ~numeric(c[k])
        \/ DigitsValue(c[2]) \notin 1..12
        \/ DigitsValue(c[1]) \notin 1..DaysInMonth(DigitsValue(c[3]), DigitsValue(c[2]))

\* C7: the normalisation of a malformed published field fails with an
\* error; it never yields a calendar date for it.
C7_MalformedDateRejected ==
    (pc = "formatedBook" /\ Len(res) = 1 /\ Malformed(arg)) => res[1].threw

====
